---- MODULE Spec2Model ----
(***************************************************************************)
(* Verification model of nextjs-auth0 style session authentication:        *)
(*   - the Auth-Required Gate (src/helpers/with-middleware-auth-required)  *)
(*   - the auth route dispatcher and its error-handler fallback            *)
(*   - the Config validator (paramsSchema / get)                           *)
(*   - the Node response abstraction (NodeResponse.setCookie / redirect)   *)
(* Each component has its own specification (SpecGate, SpecAuth,           *)
(* SpecConfig, SpecDefaults, SpecAuthorizationParams, SpecResponse); the variables of the other     *)
(* components stay at their initial value.                                 *)
(***************************************************************************)
EXTENDS Integers, Sequences, FiniteSets, TLC

VARIABLES
  gpc,        \* wrappedMiddleware: "idle" | "resolving" | "handling" | "done"
  routes,     \* { login, callback } given to withMiddlewareAuthRequiredFactory
  req,        \* req.nextUrl: pathname, origin, search
  mw,         \* the optional downstream middleware: "absent" | "present"
  authRes,    \* authRes = NextResponse.next(): its set-cookie header
  session,    \* outcome of sessionCache.get: "unresolved" | "null" | "nouser" | "user"
  getCalls,   \* number of sessionCache.get calls of this request
  mwCalls,    \* number of downstream middleware invocations of this request
  mwRes,      \* res: what the downstream middleware resolved to
  result,     \* what wrappedMiddleware returned
  apc,        \* auth route dispatcher: "idle" | "exchanging" | "failed" | "handled" | "done"
  areq,       \* the auth request: route, callback parameters, transient state cookie
  onError,    \* the error handler in use: "default" | "ends" | "noop" | "status"
  thrown,     \* the error the route handler failed with
  received,   \* the error the error handler was called with
  ares,       \* the response: statusCode, number of end() calls
  transient,  \* the transient authentication state still stored for the browser
  tokenExchanges, \* number of token exchanges attempted for this request
  sessionCreated, \* whether this request created a session
  cpc,        \* get(): "start" | "returned" | "thrown"
  params,     \* the ConfigParameters given to get()
  env,        \* process.env: SECRET, CLIENT_ID, CLIENT_SECRET
  config,     \* the Config get() returned
  cfgError,   \* the TypeError get() threw: the field and the rule its message names
  nres,       \* this.res of a NodeResponse: status, headers, body, writableEnded
  nres0,      \* this.res as it was when the NodeResponse was constructed
  calls       \* the calls made on the NodeResponse so far, in order

gateVars == <<gpc, routes, req, mw, authRes, session, getCalls, mwCalls, mwRes, result>>

authVars == <<apc, areq, onError, thrown, received, ares, transient, tokenExchanges,
              sessionCreated>>

cfgVars == <<cpc, params, env, config, cfgError>>

respVars == <<nres, nres0, calls>>

vars == <<gateVars, authVars, cfgVars, respVars>>

-----------------------------------------------------------------------------
(* Strings: String.prototype.startsWith / split / Array.prototype.join     *)

\* s.startsWith(p)
StartsWith(s, p) ==
  /\ Len(p) <= Len(s)
  /\ SubSeq(s, 1, Len(p)) = p

\* position of the first occurrence of sep in s at or after i, 0 if none
RECURSIVE IndexOf(_, _, _)
IndexOf(s, sep, i) ==
  IF i + Len(sep) - 1 > Len(s) THEN 0
  ELSE IF SubSeq(s, i, i + Len(sep) - 1) = sep THEN i
  ELSE IndexOf(s, sep, i + 1)

\* s.split(sep), sep non-empty: always at least one piece
RECURSIVE Split(_, _)
Split(s, sep) ==
  LET k == IndexOf(s, sep, 1) IN
  IF k = 0 THEN <<s>>
  ELSE <<SubSeq(s, 1, k - 1)>> \o Split(SubSeq(s, k + Len(sep), Len(s)), sep)

\* parts.join(sep)
RECURSIVE Join(_, _)
Join(parts, sep) ==
  IF Len(parts) = 0 THEN ""
  ELSE IF Len(parts) = 1 THEN parts[1]
  ELSE parts[1] \o sep \o Join(Tail(parts), sep)

\* encodeURIComponent on one character: everything but the unreserved set
\* A-Z a-z 0-9 - _ . ! ~ * ' ( ) is percent-encoded
EncodeChar(c) ==
  CASE c = "/" -> "%2F"
    [] c = "?" -> "%3F"
    [] c = "=" -> "%3D"
    [] c = "&" -> "%26"
    [] c = "%" -> "%25"
    [] c = "#" -> "%23"
    [] c = "+" -> "%2B"
    [] c = ":" -> "%3A"
    [] c = "," -> "%2C"
    [] c = " " -> "%20"
    [] OTHER   -> c

\* a plausible slip: encodeURI, which keeps the URL delimiters / ? = & # + : ,
EncodeURIChar(c) ==
  CASE c = "%" -> "%25"
    [] c = " " -> "%20"
    [] OTHER   -> c

RECURSIVE encodeURIComponentBad(_)
encodeURIComponentBad(s) ==
  IF Len(s) = 0 THEN ""
  ELSE EncodeURIChar(SubSeq(s, 1, 1)) \o encodeURIComponentBad(SubSeq(s, 2, Len(s)))

RECURSIVE encodeURIComponent(_)
encodeURIComponent(s) ==
  IF Len(s) = 0 THEN ""
  ELSE EncodeChar(SubSeq(s, 1, 1)) \o encodeURIComponent(SubSeq(s, 2, Len(s)))

-----------------------------------------------------------------------------
(* Responses                                                               *)

NoHeader == [has |-> FALSE, val |-> ""]
Header(v) == [has |-> TRUE, val |-> v]

\* a response as the gate's caller sees it
Response(kind, status, body, location, setCookie) ==
  [kind |-> kind, status |-> status, body |-> body, location |-> location,
   setCookie |-> setCookie]

NoBody == [error |-> "", description |-> ""]

\* no value was returned yet
Pending == Response("pending", 0, NoBody, "", NoHeader)
\* `return;` : the middleware resolves to undefined
Undefined == Response("undefined", 0, NoBody, "", NoHeader)

\* status NextResponse.redirect(url) uses when no init is given
NextRedirectStatus == 307
\* status of NextResponse.next()
NextStatus == 200

-----------------------------------------------------------------------------
(* Auth-Required Gate: withMiddlewareAuthRequiredFactory / wrappedMiddleware *)

ignorePathsBad(r) == {r.login, "/_next", "/favicon.ico"}

\* const ignorePaths = [login, callback, '/_next', '/favicon.ico'];
ignorePaths(r) == {r.login, r.callback, "/_next", "/favicon.ico"}

\* ignorePaths.some((p) => pathname.startsWith(p))
IsIgnored(r, pathname) == \E p \in ignorePaths(r) : StartsWith(pathname, p)

NoUserBad(s) == s = "null"

\* !session?.user
NoUser(s) == s \in {"null", "nouser"}

NotAuthenticatedBad(rq, r) ==
  Response("redirect", NextRedirectStatus, NoBody,
           rq.origin \o r.login \o "?returnTo=" \o encodeURIComponent(rq.pathname \o rq.search),
           NoHeader)

\* the answer to a request without session.user
NotAuthenticated(rq, r) ==
  IF StartsWith(rq.pathname, "/api")
  THEN Response("json", 401,
                [error |-> "not_authenticated",
                 description |-> "The user does not have an active session or is not authenticated"],
                "", NoHeader)
  ELSE Response("redirect", NextRedirectStatus, NoBody,
                rq.origin \o r.login \o "?returnTo=" \o encodeURIComponent(rq.pathname \o rq.search),
                NoHeader)

\* headers.get('set-cookie')?.split(', ') || []
CookieList(h) == IF h.has THEN Split(h.val, ", ") ELSE <<>>

MergeSetCookieBad(authHeader, resHeader) == resHeader

\* the set-cookie header of the final response
MergeSetCookie(authHeader, resHeader) ==
  LET cookies == CookieList(resHeader)
      authCookies == CookieList(authHeader)
  IN IF Len(cookies) > 0 \/ Len(authCookies) > 0
     THEN Header(Join(authCookies \o cookies, ", "))
     ELSE resHeader

\* if (res) { ... NextResponse.next({...res, status, headers}) } else { return authRes }
Finish(res, authHeader) ==
  IF res.truthy
  THEN Response("next", res.status, NoBody, "", MergeSetCookie(authHeader, res.setCookie))
  ELSE Response("authRes", NextStatus, NoBody, "", authHeader)

\* inputs
Origins == {"https://a.test"}
Paths == {"/", "/private", "/profile", "/api", "/api/private", "/apix", "/login",
          "/login/sso", "/loginx", "/callback", "/_next/static", "/favicon.ico",
          "/api/auth/login", "/api/auth/callback", "/api/auth/me"}
Searches == {"", "?a=1", "?a=1&b=/x"}
RouteConfigs == {[login |-> "/login", callback |-> "/callback"],
                 [login |-> "/api/auth/login", callback |-> "/api/auth/callback"]}
\* set-cookie headers written on authRes while the session is resolved
AuthCookieHeaders == {NoHeader, Header("appSession=v1"),
                      Header("appSession.0=v1, appSession.1=v2"),
                      Header("appSession=v1; Expires=Wed, 21 Oct")}
\* what the downstream middleware returns
HandlerCookieHeaders == {NoHeader, Header("hl=en"), Header("hl=en, t=1")}
HandlerResults ==
  {[truthy |-> FALSE, status |-> 0, setCookie |-> NoHeader]} \cup
  {[truthy |-> TRUE, status |-> st, setCookie |-> h] :
      st \in {200, 404}, h \in HandlerCookieHeaders}
NoResult == [truthy |-> FALSE, status |-> 0, setCookie |-> NoHeader]

\* the gate built by withMiddlewareAuthRequiredFactory(r)(m), before a request
GateBuilt(r, m) ==
  /\ gpc = "idle"
  /\ routes = r
  /\ req = [pathname |-> "/", origin |-> "https://a.test", search |-> ""]
  /\ mw = m
  /\ authRes = NoHeader
  /\ session = "unresolved"
  /\ getCalls = 0
  /\ mwCalls = 0
  /\ mwRes = NoResult
  /\ result = Pending

\* wrappedMiddleware(req) up to `await sessionCache.get(req, authRes)`
GateStart ==
  /\ gpc \in {"idle", "done"}
  /\ \E p \in Paths, s \in Searches, o \in Origins :
       /\ req' = [pathname |-> p, origin |-> o, search |-> s]
       /\ authRes' = NoHeader
       /\ session' = "unresolved"
       /\ mwCalls' = 0
       /\ mwRes' = NoResult
       /\ IF IsIgnored(routes, p)
          THEN /\ gpc' = "done"
               /\ result' = Undefined
               /\ getCalls' = 0
          ELSE /\ gpc' = "resolving"
               /\ result' = Pending
               /\ getCalls' = 1
  /\ UNCHANGED <<routes, mw>>
  /\ UNCHANGED <<authVars, cfgVars, respVars>>

\* sessionCache.get resolves; then the branch on !session?.user and the
\* call of the downstream middleware, up to `await middleware(...args)`
SessionResolved ==
  /\ gpc = "resolving"
  /\ \E s \in {"null", "nouser", "user"}, h \in AuthCookieHeaders :
       /\ session' = s
       /\ authRes' = h
       /\ IF NoUser(s)
          THEN /\ result' = NotAuthenticated(req, routes)
               /\ gpc' = "done"
               /\ mwCalls' = mwCalls
          ELSE IF mw = "present"
          THEN /\ result' = result
               /\ gpc' = "handling"
               /\ mwCalls' = mwCalls + 1
          ELSE /\ result' = Finish(NoResult, h)
               /\ gpc' = "done"
               /\ mwCalls' = mwCalls
  /\ UNCHANGED <<routes, req, mw, getCalls, mwRes>>
  /\ UNCHANGED <<authVars, cfgVars, respVars>>

\* the downstream middleware resolves to res; the cookies are merged
MiddlewareReturns ==
  /\ gpc = "handling"
  /\ \E res \in HandlerResults :
       /\ mwRes' = res
       /\ result' = Finish(res, authRes)
  /\ gpc' = "done"
  /\ UNCHANGED <<routes, req, mw, authRes, session, getCalls, mwCalls>>
  /\ UNCHANGED <<authVars, cfgVars, respVars>>

GateInit == \E r \in RouteConfigs, m \in {"absent", "present"} : GateBuilt(r, m)

GateIdle == GateBuilt([login |-> "/login", callback |-> "/callback"], "absent")

GateNext == GateStart \/ SessionResolved \/ MiddlewareReturns

-----------------------------------------------------------------------------
(* Auth routes: the dispatcher (handleAuth), the callback handler and the  *)
(* error-handler fallback                                                  *)

NoCause == [error |-> "", error_description |-> ""]
\* status 0: the error carries no status
NoError == [kind |-> "none", status |-> 0, cause |-> NoCause]

\* the identity provider reported an error: a typed error of status 400
\* whose cause is the provider's {error, error_description}
ProviderError(rq) ==
  [kind |-> "callback", status |-> 400,
   cause |-> [error |-> rq.error, error_description |-> rq.error_description]]

\* the returned state does not match the stored one
StateMismatch ==
  [kind |-> "callback", status |-> 400,
   cause |-> [error |-> "state_mismatch", error_description |-> "state mismatch"]]

\* the token exchange failed: an unexpected error without status
UpstreamError == [kind |-> "upstream", status |-> 0, cause |-> NoCause]

CallbackBad(rq) ==
  IF rq.state = "" \/ rq.state # rq.cookieState THEN StateMismatch
  ELSE IF rq.error # "" THEN ProviderError(rq)
  ELSE NoError

\* the callback's validation: the error it fails with, NoError to go on to
\* the token exchange
Callback(rq) ==
  IF rq.error # "" THEN ProviderError(rq)
  ELSE IF rq.state = "" \/ rq.state # rq.cookieState THEN StateMismatch
  ELSE NoError

\* res.status(code)
Status(res, code) == [res EXCEPT !.statusCode = code]
\* res.end()
End(res) == [res EXCEPT !.endCalls = @ + 1]
\* res.writableEnded
WritableEnded(res) == res.endCalls > 0

FreshResponse == [statusCode |-> 200, endCalls |-> 0]

\* the default error handler: answers with the error's status, 500 without one
DefaultOnError(res, error) ==
  End(Status(res, IF error.status # 0 THEN error.status ELSE 500))

\* custom error handlers
OnErrorEnds(res, error) == End(res)
OnErrorNoop(res, error) == res
OnErrorStatus(res, error) == Status(res, 418)

RunOnError(h, res, error) ==
  CASE h = "default" -> DefaultOnError(res, error)
    [] h = "ends"    -> OnErrorEnds(res, error)
    [] h = "noop"    -> OnErrorNoop(res, error)
    [] h = "status"  -> OnErrorStatus(res, error)

TerminatorBad(res) == End(Status(res, IF res.statusCode = 200 THEN 500 ELSE res.statusCode))

TerminatorStatusBad(res) == IF WritableEnded(res) THEN res ELSE End(Status(res, 500))

\* the default terminator: finalizes a response the error handler left open
Terminator(res) ==
  IF WritableEnded(res) THEN res
  ELSE End(Status(res, IF res.statusCode = 200 THEN 500 ELSE res.statusCode))

\* the error object handed to the error handler
ErrorGiven(error) == error

AuthRoutes == {"login", "logout", "callback", "me", "foo"}
ProviderErrors == {"", "foo", "access_denied"}
Descriptions == {"", "bar"}
States == {"", "s1", "s2"}
OnErrors == {"default", "ends", "noop", "status"}

AuthInit ==
  /\ apc = "idle"
  /\ areq = [route |-> "login", error |-> "", error_description |-> "", state |-> "",
             cookieState |-> ""]
  /\ onError = "default"
  /\ thrown = NoError
  /\ received = NoError
  /\ ares = FreshResponse
  /\ transient = ""
  /\ tokenExchanges = 0
  /\ sessionCreated = FALSE

\* a request to /api/auth/<route>: the dispatcher runs the route's handler
AuthStart ==
  /\ apc \in {"idle", "done"}
  /\ \E rt \in AuthRoutes, e \in ProviderErrors, d \in Descriptions, st \in States,
        h \in OnErrors :
       LET rq == [route |-> rt, error |-> e, error_description |-> d, state |-> st,
                  cookieState |-> transient]
       IN /\ areq' = rq
          /\ onError' = h
          /\ received' = NoError
          /\ tokenExchanges' = 0
          /\ sessionCreated' = FALSE
          /\ CASE rt = "callback" ->
                    \* the transient state is read and deleted, whatever the outcome
                    /\ transient' = ""
                    /\ thrown' = Callback(rq)
                    /\ ares' = FreshResponse
                    /\ apc' = IF Callback(rq) = NoError THEN "exchanging" ELSE "failed"
               [] rt = "login" ->
                    \* a fresh state is stored and the browser sent to the provider
                    /\ \E fresh \in States \ {""} : transient' = fresh
                    /\ thrown' = NoError
                    /\ ares' = End(Status(FreshResponse, 302))
                    /\ apc' = "done"
               [] rt \in {"logout", "me"} ->
                    /\ transient' = transient
                    /\ thrown' = NoError
                    /\ ares' = End(Status(FreshResponse, IF rt = "logout" THEN 302 ELSE 200))
                    /\ apc' = "done"
               [] OTHER ->
                    \* unknown route: 404
                    /\ transient' = transient
                    /\ thrown' = NoError
                    /\ ares' = End(Status(FreshResponse, 404))
                    /\ apc' = "done"
  /\ UNCHANGED <<gateVars, cfgVars, respVars>>

\* the external OIDC client answers the token exchange
TokenExchange ==
  /\ apc = "exchanging"
  /\ tokenExchanges' = tokenExchanges + 1
  /\ \/ /\ sessionCreated' = TRUE
        /\ ares' = End(Status(ares, 302))
        /\ thrown' = thrown
        /\ apc' = "done"
     \/ /\ sessionCreated' = FALSE
        /\ ares' = ares
        /\ thrown' = UpstreamError
        /\ apc' = "failed"
  /\ UNCHANGED <<areq, onError, received, transient>>
  /\ UNCHANGED <<gateVars, cfgVars, respVars>>

\* catch (error): await (onError || defaultOnError)(req, res, error)
ErrorHandlerRuns ==
  /\ apc = "failed"
  /\ received' = ErrorGiven(thrown)
  /\ ares' = RunOnError(onError, ares, ErrorGiven(thrown))
  /\ apc' = "handled"
  /\ UNCHANGED <<areq, onError, thrown, transient, tokenExchanges, sessionCreated>>
  /\ UNCHANGED <<gateVars, cfgVars, respVars>>

\* after the error handler returned: finish the response if it is still open
Terminate ==
  /\ apc = "handled"
  /\ ares' = Terminator(ares)
  /\ apc' = "done"
  /\ UNCHANGED <<areq, onError, thrown, received, transient, tokenExchanges,
                 sessionCreated>>
  /\ UNCHANGED <<gateVars, cfgVars, respVars>>

AuthNext == AuthStart \/ TokenExchange \/ ErrorHandlerRuns \/ Terminate

-----------------------------------------------------------------------------
(* Config: paramsSchema and get()                                          *)

\* JavaScript values of the configuration
Undef == [t |-> "undefined", b |-> FALSE, n |-> 0, frac |-> FALSE, s |-> "", items |-> <<>>]
Bool(b) == [t |-> "boolean", b |-> b, n |-> 0, frac |-> FALSE, s |-> "", items |-> <<>>]
\* the integer n
Num(n) == [t |-> "number", b |-> FALSE, n |-> n, frac |-> FALSE, s |-> "", items |-> <<>>]
\* the non-integer number n + 1/2
NumHalf(n) == [t |-> "number", b |-> FALSE, n |-> n, frac |-> TRUE, s |-> "", items |-> <<>>]
Str(s) == [t |-> "string", b |-> FALSE, n |-> 0, frac |-> FALSE, s |-> s, items |-> <<>>]
\* the array of the strings a
Arr(a) == [t |-> "array", b |-> FALSE, n |-> 0, frac |-> FALSE, s |-> "", items |-> a]

\* outcome of validating one key: the Joi error type ("" when valid) and the
\* validated (converted or defaulted) value
Valid(v) == [err |-> "", v |-> v]
Invalid(type, v) == [err |-> type, v |-> v]

\* s.includes(sub)
Includes(s, sub) == IndexOf(s, sub, 1) # 0

\* \w of a regular expression
WordChars ==
  {"a", "b", "c", "d", "e", "f", "g", "h", "i", "j", "k", "l", "m", "n", "o", "p", "q",
   "r", "s", "t", "u", "v", "w", "x", "y", "z", "A", "B", "C", "D", "E", "F", "G", "H",
   "I", "J", "K", "L", "M", "N", "O", "P", "Q", "R", "S", "T", "U", "V", "W", "X", "Y",
   "Z", "0", "1", "2", "3", "4", "5", "6", "7", "8", "9", "_"}

\* /\bopenid\b/ matches s
MatchesOpenid(s) ==
  \E k \in 1..Len(s) :
    /\ k + 5 <= Len(s)
    /\ SubSeq(s, k, k + 5) = "openid"
    /\ (k = 1 \/ SubSeq(s, k - 1, k - 1) \notin WordChars)
    /\ (k + 5 = Len(s) \/ SubSeq(s, k + 6, k + 6) \notin WordChars)

\* the strings Joi.number() converts, with their value
NumericStrings == {"3600"}
NumberOf(s) == CASE s = "3600" -> 3600

\* Joi.boolean(): booleans, and the strings 'true' / 'false' converted
JoiBoolean(v) ==
  IF v.t = "boolean" THEN Valid(v)
  ELSE IF v.t = "string" /\ v.s \in {"true", "false"} THEN Valid(Bool(v.s = "true"))
  ELSE Invalid("boolean.base", v)

\* Joi.boolean().valid(false)
JoiFalse(v) ==
  LET r == JoiBoolean(v) IN
  IF r.err # "" THEN r
  ELSE IF r.v = Bool(FALSE) THEN r
  ELSE Invalid("any.only", v)

\* Joi.number().integer(): numbers, and numeric strings converted
JoiInteger(v) ==
  LET c == IF v.t = "string" /\ v.s \in NumericStrings THEN Num(NumberOf(v.s)) ELSE v IN
  IF c.t # "number" THEN Invalid("number.base", v)
  ELSE IF c.frac THEN Invalid("number.integer", v)
  ELSE Valid(c)

\* Joi.alternatives([Joi.number().integer(), Joi.boolean().valid(false)])
JoiIntegerOrFalse(v) ==
  IF JoiInteger(v).err = "" THEN JoiInteger(v)
  ELSE IF JoiFalse(v).err = "" THEN JoiFalse(v)
  ELSE Invalid("alternatives.match", v)

\* session.rolling: Joi.boolean().optional().default(true)
Rolling(v) == IF v = Undef THEN Valid(Bool(TRUE)) ELSE JoiBoolean(v)

RollingDurationBad(v, rolling) ==
  IF v = Undef THEN Valid(IF rolling = Bool(TRUE) THEN Num(24 * 60 * 60) ELSE Bool(FALSE))
  ELSE JoiIntegerOrFalse(v)

\* session.rollingDuration, given the validated session.rolling
RollingDuration(v, rolling) ==
  IF v = Undef THEN Valid(IF rolling = Bool(TRUE) THEN Num(24 * 60 * 60) ELSE Bool(FALSE))
  ELSE IF rolling = Bool(TRUE) THEN JoiInteger(v)
  ELSE JoiFalse(v)

\* session.absoluteDuration, given the validated session.rolling
AbsoluteDuration(v, rolling) ==
  IF v = Undef THEN Valid(Num(7 * 24 * 60 * 60))
  ELSE IF rolling = Bool(FALSE) THEN JoiInteger(v)
  ELSE JoiIntegerOrFalse(v)

\* authorizationParams.response_type
ResponseType(v) ==
  IF v = Undef THEN Valid(Str("id_token"))
  ELSE IF v.t # "string" THEN Invalid("string.base", v)
  ELSE IF v.s \in {"id_token", "code id_token", "code"} THEN Valid(v)
  ELSE Invalid("any.only", v)

ScopeBad(v) ==
  IF v = Undef THEN Valid(Str("openid profile email"))
  ELSE IF v.t # "string" THEN Invalid("string.base", v)
  ELSE IF v.s = "" THEN Invalid("string.empty", v)
  ELSE IF Includes(v.s, "openid") THEN Valid(v)
  ELSE Invalid("string.pattern.name", v)

\* authorizationParams.scope
Scope(v) ==
  IF v = Undef THEN Valid(Str("openid profile email"))
  ELSE IF v.t # "string" THEN Invalid("string.base", v)
  ELSE IF v.s = "" THEN Invalid("string.empty", v)
  ELSE IF MatchesOpenid(v.s) THEN Valid(v)
  ELSE Invalid("string.pattern.name", v)

ResponseModeBad(v, response_type) ==
  IF v = Undef THEN Valid(Str("form_post"))
  ELSE IF v.t # "string" THEN Invalid("string.base", v)
  ELSE IF v.s \in {"query", "form_post"} THEN Valid(v)
  ELSE Invalid("any.only", v)

\* authorizationParams.response_mode, given the validated response_type
ResponseMode(v, response_type) ==
  IF response_type = Str("code")
  THEN IF v = Undef THEN Valid(Undef)
       ELSE IF v.t # "string" THEN Invalid("string.base", v)
       ELSE IF v.s = "query" THEN Valid(v)
       ELSE Invalid("any.only", v)
  ELSE IF v = Undef THEN Valid(Str("form_post"))
       ELSE IF v.t # "string" THEN Invalid("string.base", v)
       ELSE IF v.s = "form_post" THEN Valid(v)
       ELSE Invalid("any.only", v)

\* secret (a single key): Joi.string().min(8), required
Secret(v) ==
  IF v = Undef THEN Invalid("any.required", v)
  ELSE IF v.t # "string" THEN Invalid("alternatives.types", v)
  ELSE IF Len(v.s) < 8 THEN Invalid("alternatives.match", v)
  ELSE Valid(v)

\* clientID: Joi.string().required()
ClientID(v) ==
  IF v = Undef THEN Invalid("any.required", v)
  ELSE IF v.t # "string" THEN Invalid("string.base", v)
  ELSE IF v.s = "" THEN Invalid("string.empty", v)
  ELSE Valid(v)

\* lower case of the algorithm names in use
Lower(s) ==
  CASE s = "NONE" -> "none"
    [] s = "None" -> "none"
    [] OTHER -> s

\* idTokenSigningAlg: Joi.string().insensitive().not('none').optional().default('RS256')
IdTokenSigningAlg(v) ==
  IF v = Undef THEN Valid(Str("RS256"))
  ELSE IF v.t # "string" THEN Invalid("string.base", v)
  ELSE IF v.s = "" THEN Invalid("string.empty", v)
  ELSE IF Lower(v.s) = "none" THEN Invalid("any.invalid", v)
  ELSE Valid(v)

ClientSecretRequiredBad(response_type, alg) ==
  response_type.t = "string" /\ response_type.s = "code"

\* the two conditions under which clientSecret is required, on the validated
\* authorizationParams.response_type and idTokenSigningAlg
ClientSecretRequired(response_type, alg) ==
  \/ (response_type.t = "string" /\ Includes(response_type.s, "code"))
  \/ (alg.t = "string" /\ StartsWith(alg.s, "HS"))

\* clientSecret: Joi.string(), required under ClientSecretRequired
ClientSecret(v, response_type, alg) ==
  IF v = Undef
  THEN IF ClientSecretRequired(response_type, alg) THEN Invalid("any.required", v)
       ELSE Valid(v)
  ELSE IF v.t # "string" THEN Invalid("string.base", v)
  ELSE IF v.s = "" THEN Invalid("string.empty", v)
  ELSE Valid(v)

\* Joi.string().uri({ relativeOnly: true }): a URI reference without a scheme
JoiRelativeUri(v) ==
  IF v.t # "string" THEN Invalid("string.base", v)
  ELSE IF v.s = "" THEN Invalid("string.empty", v)
  ELSE IF Includes(v.s, ":") \/ Includes(v.s, " ") THEN Invalid("string.uri", v)
  ELSE Valid(v)

\* session.cookie.httpOnly: Joi.boolean().optional().default(true)
CookieHttpOnly(v) == IF v = Undef THEN Valid(Bool(TRUE)) ELSE JoiBoolean(v)

CookieSameSiteBad(v) ==
  IF v = Undef THEN Valid(Str("Lax"))
  ELSE IF v.t # "string" THEN Invalid("string.base", v)
  ELSE IF v.s \in {"Lax", "Strict", "None"} THEN Valid(Str("Lax"))
  ELSE Invalid("any.only", v)

\* session.cookie.sameSite: Joi.string().valid('Lax', 'Strict', 'None').default('Lax')
CookieSameSite(v) ==
  IF v = Undef THEN Valid(Str("Lax"))
  ELSE IF v.t # "string" THEN Invalid("string.base", v)
  ELSE IF v.s \in {"Lax", "Strict", "None"} THEN Valid(v)
  ELSE Invalid("any.only", v)

\* clockTolerance: Joi.number().optional().default(60)
ClockTolerance(v) ==
  IF v = Undef THEN Valid(Num(60))
  ELSE IF v.t = "string" /\ v.s \in NumericStrings THEN Valid(Num(NumberOf(v.s)))
  ELSE IF v.t = "number" THEN Valid(v)
  ELSE Invalid("number.base", v)

\* the default of identityClaimFilter
DefaultIdentityClaimFilter ==
  <<"aud", "iss", "iat", "exp", "nbf", "nonce", "azp", "auth_time", "s_hash", "at_hash",
    "c_hash">>

\* identityClaimFilter: Joi.array().optional().default([...])
IdentityClaimFilter(v) ==
  IF v = Undef THEN Valid(Arr(DefaultIdentityClaimFilter))
  ELSE IF v.t = "array" THEN Valid(v)
  ELSE Invalid("array.base", v)

\* routes.login and routes.logout:
\* Joi.alternatives([Joi.string().uri({ relativeOnly: true }), Joi.boolean().valid(false)])
\* with the default d
RouteOrFalse(v, d) ==
  IF v = Undef THEN Valid(Str(d))
  ELSE IF JoiRelativeUri(v).err = "" THEN JoiRelativeUri(v)
  ELSE IF JoiFalse(v).err = "" THEN JoiFalse(v)
  ELSE Invalid("alternatives.match", v)

\* routes.callback: Joi.string().uri({ relativeOnly: true }).default('/callback')
RouteCallback(v) == IF v = Undef THEN Valid(Str("/callback")) ELSE JoiRelativeUri(v)

\* v, or the fallback when v is not given
Or(v, fallback) == IF v = Undef THEN fallback ELSE v

\* { secret: process.env.SECRET, ..., clientSecret: process.env.CLIENT_SECRET, ...config }
MergeEnv(p, e) ==
  [p EXCEPT !.secret = Or(p.secret, e.SECRET),
            !.clientID = Or(p.clientID, e.CLIENT_ID),
            !.clientSecret = Or(p.clientSecret, e.CLIENT_SECRET)]

\* paramsSchema.validate(c): every key's outcome, the keys a key refers to first
Outcomes(c) ==
  LET rolling == Rolling(c.session.rolling)
      rt == ResponseType(c.authorizationParams.response_type)
      alg == IdTokenSigningAlg(c.idTokenSigningAlg)
  IN <<[field |-> "secret", r |-> Secret(c.secret)],
       [field |-> "session.rolling", r |-> rolling],
       [field |-> "session.rollingDuration",
        r |-> RollingDuration(c.session.rollingDuration, rolling.v)],
       [field |-> "session.absoluteDuration",
        r |-> AbsoluteDuration(c.session.absoluteDuration, rolling.v)],
       [field |-> "session.cookie.httpOnly", r |-> CookieHttpOnly(c.session.cookie.httpOnly)],
       [field |-> "session.cookie.sameSite", r |-> CookieSameSite(c.session.cookie.sameSite)],
       [field |-> "authorizationParams.response_type", r |-> rt],
       [field |-> "authorizationParams.scope", r |-> Scope(c.authorizationParams.scope)],
       [field |-> "authorizationParams.response_mode",
        r |-> ResponseMode(c.authorizationParams.response_mode, rt.v)],
       [field |-> "clientID", r |-> ClientID(c.clientID)],
       [field |-> "clockTolerance", r |-> ClockTolerance(c.clockTolerance)],
       [field |-> "identityClaimFilter", r |-> IdentityClaimFilter(c.identityClaimFilter)],
       [field |-> "idTokenSigningAlg", r |-> alg],
       [field |-> "clientSecret", r |-> ClientSecret(c.clientSecret, rt.v, alg.v)],
       [field |-> "routes.login", r |-> RouteOrFalse(c.routes.login, "/login")],
       [field |-> "routes.logout", r |-> RouteOrFalse(c.routes.logout, "/logout")],
       [field |-> "routes.callback", r |-> RouteCallback(c.routes.callback)]>>

\* paramsValidation.value
Value(o) ==
  [secret |-> o[1].r.v,
   session |-> [rolling |-> o[2].r.v, rollingDuration |-> o[3].r.v,
                absoluteDuration |-> o[4].r.v,
                cookie |-> [httpOnly |-> o[5].r.v, sameSite |-> o[6].r.v]],
   authorizationParams |-> [response_type |-> o[7].r.v, scope |-> o[8].r.v,
                            response_mode |-> o[9].r.v],
   clientID |-> o[10].r.v,
   clockTolerance |-> o[11].r.v,
   identityClaimFilter |-> o[12].r.v,
   idTokenSigningAlg |-> o[13].r.v,
   clientSecret |-> o[14].r.v,
   routes |-> [login |-> o[15].r.v, logout |-> o[16].r.v, callback |-> o[17].r.v]]

NoDetail == [field |-> "", type |-> ""]

FirstErrorBad(o) ==
  IF o[1].r.err = "" THEN NoDetail
  ELSE [field |-> o[1].field, type |-> o[1].r.err]

\* paramsValidation.error.details[0]: the first key that fails (abortEarly)
FirstError(o) ==
  IF \A i \in 1..Len(o) : o[i].r.err = "" THEN NoDetail
  ELSE LET i == CHOOSE i \in 1..Len(o) :
                  /\ o[i].r.err # ""
                  /\ \A j \in 1..(i - 1) : o[j].r.err = ""
       IN [field |-> o[i].field, type |-> o[i].r.err]

\* inputs
RollingValues == {Undef, Bool(TRUE), Bool(FALSE), Str("yes")}
RollingDurationValues == {Undef, Num(3600), Bool(FALSE), Str("3600")}
AbsoluteDurationValues == {Undef, Num(7200), NumHalf(1), Bool(FALSE)}
ResponseTypeValues == {Undef, Str("id_token"), Str("code id_token"), Str("code"), Str("token")}
ResponseModeValues == {Undef, Str("query"), Str("form_post"), Str("fragment")}
ScopeValues == {Undef, Str("openid"), Str("profile email")}
ClientSecretValues == {Undef, Str("shh")}
AlgValues == {Undef, Str("HS256"), Str("hs256"), Str("None")}
SecretValues == {Undef, Str("LONG_RANDOM_VALUE")}
Envs == {[SECRET |-> Undef, CLIENT_ID |-> Str("CLIENT_ID"), CLIENT_SECRET |-> Undef],
         [SECRET |-> Undef, CLIENT_ID |-> Str("CLIENT_ID"),
          CLIENT_SECRET |-> Str("ENV_SECRET")]}

NoParams ==
  [secret |-> Undef,
   session |-> [rolling |-> Undef, rollingDuration |-> Undef, absoluteDuration |-> Undef,
                cookie |-> [httpOnly |-> Undef, sameSite |-> Undef]],
   authorizationParams |-> [response_type |-> Undef, scope |-> Undef,
                            response_mode |-> Undef],
   clientID |-> Undef,
   clockTolerance |-> Undef,
   identityClaimFilter |-> Undef,
   idTokenSigningAlg |-> Undef,
   clientSecret |-> Undef,
   routes |-> [login |-> Undef, logout |-> Undef, callback |-> Undef]]

\* a raw config that gives only the required fields
RequiredOnly ==
  [NoParams EXCEPT !.secret = Str("LONG_RANDOM_VALUE"), !.clientID = Str("CLIENT_ID")]

\* before get(p) is called in environment e
CfgStart(p, e) ==
  /\ cpc = "start"
  /\ params = p
  /\ env = e
  /\ config = NoParams
  /\ cfgError = NoDetail

CfgInit ==
  \E ro \in RollingValues, rd \in RollingDurationValues, ad \in AbsoluteDurationValues,
     rt \in ResponseTypeValues, rm \in ResponseModeValues, sc \in ScopeValues,
     cs \in ClientSecretValues, alg \in AlgValues, se \in SecretValues, e \in Envs :
    CfgStart([NoParams EXCEPT
                !.secret = se,
                !.session.rolling = ro,
                !.session.rollingDuration = rd,
                !.session.absoluteDuration = ad,
                !.authorizationParams = [response_type |-> rt, scope |-> sc,
                                         response_mode |-> rm],
                !.idTokenSigningAlg = alg,
                !.clientSecret = cs], e)

\* inputs for authorizationParams: scopes with and without the word openid
WordScopeValues ==
  {Undef, Str("openid"), Str("email openid"), Str("profile email"), Str("openidx email"),
   Str("my_openid"), Str("openid-x")}
WordResponseTypeValues ==
  {Undef, Str("id_token"), Str("code id_token"), Str("code"), Str("token"), Str("id_token code")}
WordResponseModeValues == {Undef, Str("query"), Str("form_post")}

\* get(p) with the required fields and authorizationParams given
CfgAuthorizationParamsInit ==
  \E rt \in WordResponseTypeValues, sc \in WordScopeValues, rm \in WordResponseModeValues,
     cs \in ClientSecretValues :
    CfgStart([RequiredOnly EXCEPT
                !.authorizationParams = [response_type |-> rt, scope |-> sc,
                                         response_mode |-> rm],
                !.clientSecret = cs],
             [SECRET |-> Undef, CLIENT_ID |-> Undef, CLIENT_SECRET |-> Undef])

\* inputs for the defaults: each optional field left out or supplied
HttpOnlyValues == {Undef, Bool(FALSE)}
SameSiteValues == {Undef, Str("Strict"), Str("lax")}
ClockToleranceValues == {Undef, Num(30), Str("3600")}
IdentityClaimFilterValues == {Undef, Arr(<<"aud">>)}
LoginValues == {Undef, Str("/api/auth/login"), Bool(FALSE)}
LogoutValues == {Undef, Str("/api/auth/logout")}
CallbackValues == {Undef, Str("/api/auth/callback")}
DefaultsAlgValues == {Undef, Str("RS512")}
DefaultsRollingValues == {Undef, Bool(FALSE)}
DefaultsRollingDurationValues == {Undef, Num(3600)}
DefaultsAbsoluteDurationValues == {Undef, Num(7200)}
\* get(p) with the required fields given and every optional field either
\* left out or supplied
CfgDefaultsInit ==
  \E ho \in HttpOnlyValues, ss \in SameSiteValues, ct \in ClockToleranceValues,
     icf \in IdentityClaimFilterValues, li \in LoginValues, lo \in LogoutValues,
     cb \in CallbackValues, alg \in DefaultsAlgValues, ro \in DefaultsRollingValues,
     rd \in DefaultsRollingDurationValues, ad \in DefaultsAbsoluteDurationValues :
    CfgStart([RequiredOnly EXCEPT
                !.session = [rolling |-> ro, rollingDuration |-> rd, absoluteDuration |-> ad,
                             cookie |-> [httpOnly |-> ho, sameSite |-> ss]],
                !.clockTolerance = ct,
                !.identityClaimFilter = icf,
                !.idTokenSigningAlg = alg,
                !.routes = [login |-> li, logout |-> lo, callback |-> cb]],
             [SECRET |-> Undef, CLIENT_ID |-> Undef, CLIENT_SECRET |-> Undef])

CfgIdle == CfgStart(NoParams, [SECRET |-> Undef, CLIENT_ID |-> Undef, CLIENT_SECRET |-> Undef])

\* get(params): merge the environment, validate, throw the first error or
\* return the validated value
Get ==
  /\ cpc = "start"
  /\ LET o == Outcomes(MergeEnv(params, env)) IN
       IF FirstError(o) # NoDetail
       THEN /\ cpc' = "thrown"
            /\ cfgError' = FirstError(o)
            /\ config' = config
       ELSE /\ cpc' = "returned"
            /\ cfgError' = cfgError
            /\ config' = Value(o)
  /\ UNCHANGED <<params, env>>
  /\ UNCHANGED <<gateVars, authVars, respVars>>

CfgNext == Get

-----------------------------------------------------------------------------
(* NodeResponse: setCookie and redirect on an http.ServerResponse          *)

\* res.getHeader('Set-Cookie'): absent, one string, or an array of strings
NoCookies == [kind |-> "absent", list |-> <<>>]
CookieString(c) == [kind |-> "string", list |-> <<c>>]
CookieArray(l) == [kind |-> "array", list |-> l]

\* this.res: the status code, the Location and Set-Cookie headers set on it,
\* the body written by end(), and whether the headers and the end were sent
ServerResponse(location, cookies) ==
  [statusCode |-> 200, location |-> location, setCookie |-> cookies, body |-> "",
   headersSent |-> FALSE, writableEnded |-> FALSE]

\* CookieSerializeOptions: the path attribute ("" when not given)
NoOptions == [path |-> ""]
PathOption(p) == [path |-> p]

\* serialize(name, value, options) of the cookie package
serialize(name, value, options) ==
  name \o "=" \o encodeURIComponent(value)
       \o (IF options.path # "" THEN "; Path=" \o options.path ELSE "")

\* let cookies = this.res.getHeader('Set-Cookie') || []; a string becomes [string]
CurrentCookies(res) == res.setCookie.list

setCookieBad(res, name, value, options) ==
  [res EXCEPT !.setCookie =
     CookieArray(Append(SelectSeq(CurrentCookies(res), LAMBDA cookie : ~StartsWith(cookie, name)),
                        serialize(name, value, options)))]

\* NodeResponse.setCookie on a response whose headers are not sent
setCookie(res, name, value, options) ==
  [res EXCEPT !.setCookie =
     CookieArray(Append(SelectSeq(CurrentCookies(res),
                                  LAMBDA cookie : ~StartsWith(cookie, name \o "=")),
                        serialize(name, value, options)))]

\* htmlSafe of one character
HtmlSafeChar(c) ==
  CASE c = "&" -> "&amp;"
    [] c = "<" -> "&lt;"
    [] c = ">" -> "&gt;"
    [] c = "\"" -> "&quot;"
    [] c = "'" -> "&#39;"
    [] OTHER -> c

\* htmlSafe(input): the input with the HTML special characters escaped
RECURSIVE htmlSafe(_)
htmlSafe(input) ==
  IF input = "" THEN ""
  ELSE HtmlSafeChar(SubSeq(input, 1, 1)) \o htmlSafe(SubSeq(input, 2, Len(input)))

\* the default of redirect's status parameter
DefaultRedirectStatus == 302

\* the status argument of redirect: 0 stands for an argument not given
StatusOrDefault(status) == IF status = 0 THEN DefaultRedirectStatus ELSE status

LocationHeaderBad(res, location) == Header(location)

\* Location: this.res.getHeader('Location') || location
LocationHeader(res, location) ==
  IF res.location.has /\ res.location.val # "" THEN res.location ELSE Header(location)

redirectBad(res, location, status) ==
  [res EXCEPT !.statusCode = StatusOrDefault(status),
              !.location = LocationHeader(res, location),
              !.body = htmlSafe(location),
              !.headersSent = TRUE,
              !.writableEnded = TRUE]

\* NodeResponse.redirect(location, status)
redirect(res, location, status) ==
  IF res.writableEnded THEN res
  ELSE [res EXCEPT !.statusCode = StatusOrDefault(status),
                   !.location = LocationHeader(res, location),
                   !.body = htmlSafe(location),
                   !.headersSent = TRUE,
                   !.writableEnded = TRUE]

\* a call made on the response
Call(op, name, value, options, location, status, threw) ==
  [op |-> op, name |-> name, value |-> value, options |-> options,
   location |-> location, status |-> status, threw |-> threw]

\* the longest sequence of calls made on one response
MaxCalls == 3

\* inputs
CookieNames == {"appSession", "appSession.0"}
CookieValues == {"v1", "v 2"}
CookieOptions == {NoOptions, PathOption("/")}
Locations == {"/", "/?<&>"}
RedirectStatuses == {0, 301}
InitialLocations == {NoHeader, Header("/prior")}
InitialCookies ==
  {NoCookies, CookieString("other=1"),
   CookieArray(<<"appSession=old", "appSession.0=old; Path=/">>)}

\* a NodeResponse constructed on the ServerResponse res
RespBuilt(res) ==
  /\ nres = res
  /\ nres0 = res
  /\ calls = <<>>

RespInit ==
  \E l \in InitialLocations, c \in InitialCookies : RespBuilt(ServerResponse(l, c))

RespIdle == RespBuilt(ServerResponse(NoHeader, NoCookies))

\* setCookie(name, value, options); res.setHeader throws once the headers are sent
SetCookieCall ==
  /\ Len(calls) < MaxCalls
  /\ \E name \in CookieNames, value \in CookieValues, options \in CookieOptions :
       IF nres.headersSent
       THEN /\ nres' = nres
            /\ calls' = Append(calls, Call("setCookie", name, value, options, "", 0, TRUE))
       ELSE /\ nres' = setCookie(nres, name, value, options)
            /\ calls' = Append(calls, Call("setCookie", name, value, options, "", 0, FALSE))
  /\ UNCHANGED nres0
  /\ UNCHANGED <<gateVars, authVars, cfgVars>>

\* redirect(location) or redirect(location, status)
RedirectCall ==
  /\ Len(calls) < MaxCalls
  /\ \E location \in Locations, status \in RedirectStatuses :
       /\ nres' = redirect(nres, location, status)
       /\ calls' = Append(calls, Call("redirect", "", "", NoOptions, location, status, FALSE))
  /\ UNCHANGED nres0
  /\ UNCHANGED <<gateVars, authVars, cfgVars>>

\* the response is ended by other code: res.end()
EndCall ==
  /\ Len(calls) < MaxCalls
  /\ ~nres.writableEnded
  /\ nres' = [nres EXCEPT !.headersSent = TRUE, !.writableEnded = TRUE]
  /\ calls' = Append(calls, Call("end", "", "", NoOptions, "", 0, FALSE))
  /\ UNCHANGED nres0
  /\ UNCHANGED <<gateVars, authVars, cfgVars>>

RespNext == SetCookieCall \/ RedirectCall \/ EndCall

-----------------------------------------------------------------------------
(* Specifications                                                          *)

InitGate == GateInit /\ AuthInit /\ CfgIdle /\ RespIdle

SpecGate == InitGate /\ [][GateNext]_vars

InitAuth == GateIdle /\ AuthInit /\ CfgIdle /\ RespIdle

SpecAuth == InitAuth /\ [][AuthNext]_vars

InitConfig == GateIdle /\ AuthInit /\ CfgInit /\ RespIdle

SpecConfig == InitConfig /\ [][CfgNext]_vars

InitDefaults == GateIdle /\ AuthInit /\ CfgDefaultsInit /\ RespIdle

SpecDefaults == InitDefaults /\ [][CfgNext]_vars

InitAuthorizationParams == GateIdle /\ AuthInit /\ CfgAuthorizationParamsInit /\ RespIdle

SpecAuthorizationParams == InitAuthorizationParams /\ [][CfgNext]_vars

InitResponse == GateIdle /\ AuthInit /\ CfgIdle /\ RespInit

SpecResponse == InitResponse /\ [][RespNext]_vars

-----------------------------------------------------------------------------
(* Claims about the Auth-Required Gate                                     *)

\* decodeURIComponent, used to read a returnTo value back
DecodeTriplet(t) ==
  CASE t = "%2F" -> "/"
    [] t = "%3F" -> "?"
    [] t = "%3D" -> "="
    [] t = "%26" -> "&"
    [] t = "%25" -> "%"
    [] t = "%23" -> "#"
    [] t = "%2B" -> "+"
    [] t = "%3A" -> ":"
    [] t = "%2C" -> ","
    [] t = "%20" -> " "
    [] OTHER     -> "<malformed>"

RECURSIVE PercentDecode(_)
PercentDecode(s) ==
  IF Len(s) = 0 THEN ""
  ELSE IF SubSeq(s, 1, 1) = "%"
  THEN DecodeTriplet(SubSeq(s, 1, 3)) \o PercentDecode(SubSeq(s, 4, Len(s)))
  ELSE SubSeq(s, 1, 1) \o PercentDecode(SubSeq(s, 2, Len(s)))

\* the pathname starts with one of the four exempt prefixes
ExemptPath ==
  \/ StartsWith(req.pathname, routes.login)
  \/ StartsWith(req.pathname, routes.callback)
  \/ StartsWith(req.pathname, "/_next")
  \/ StartsWith(req.pathname, "/favicon.ico")

\* the request was answered without a session user
AnsweredWithoutUser == gpc = "done" /\ ~ExemptPath /\ session \in {"null", "nouser"}

\* C1: a non-exempt request to an '/api' path whose session resolution yields
\* no session is answered 401 with body {error: 'not_authenticated',
\* description: ...} and the downstream handler is never invoked.
C1_ApiUnauthenticated401 ==
  /\ (AnsweredWithoutUser /\ StartsWith(req.pathname, "/api")) =>
        /\ result.kind = "json"
        /\ result.status = 401
        /\ result.body.error = "not_authenticated"
        /\ result.body.description # ""
  /\ (session \in {"null", "nouser"}) => mwCalls = 0

C1_Witness ==
  /\ gpc = "done"
  /\ req.pathname = "/api/private"
  /\ session = "null"
  /\ result.status = 401

\* what C2 says about the redirect target: login route on the request's
\* origin, one query parameter returnTo holding the encoded path and query
RedirectsToLogin ==
  LET prefix == req.origin \o routes.login \o "?returnTo="
      v == SubSeq(result.location, Len(prefix) + 1, Len(result.location))
  IN /\ result.kind = "redirect"
     /\ StartsWith(result.location, prefix)
     /\ \A i \in 1..Len(v) : SubSeq(v, i, i) \notin {"&", "=", "?", "/", "#"}
     /\ PercentDecode(v) = req.pathname \o req.search
     /\ (req.pathname = "/private" /\ req.search = "" /\ routes.login = "/login")
          => result.location = req.origin \o "/login?returnTo=%2Fprivate"
     /\ mwCalls = 0

\* C2 (as stated): a non-exempt, non-'/api' request without session is
\* answered with a 302 redirect to login?returnTo=<encoded path and query>
\* and the downstream handler is not invoked.
C2_Original ==
  (AnsweredWithoutUser /\ ~StartsWith(req.pathname, "/api")) =>
     (RedirectsToLogin /\ result.status = 302)

\* C2 (amended): the same, with the status NextResponse.redirect uses when
\* the gate passes none, 307.
C2_PageUnauthenticatedRedirect ==
  (AnsweredWithoutUser /\ ~StartsWith(req.pathname, "/api")) =>
     (RedirectsToLogin /\ result.status = 307)

C2_Witness ==
  /\ gpc = "done"
  /\ req.pathname = "/private"
  /\ req.search = "?a=1&b=/x"
  /\ session = "null"
  /\ result.kind = "redirect"

\* C3: with a session user, a response returned by the downstream handler
\* ends with Set-Cookie = resolution cookies followed by handler cookies,
\* none dropped; without a handler response the resolution response is
\* returned with its cookies.
C3_CookiesMerged ==
  (gpc = "done" /\ session = "user") =>
     IF mwRes.truthy
     THEN /\ result.kind = "next"
          /\ result.status = mwRes.status
          /\ result.setCookie =
               IF authRes.has /\ mwRes.setCookie.has
               THEN Header(authRes.val \o ", " \o mwRes.setCookie.val)
               ELSE IF authRes.has THEN authRes
               ELSE mwRes.setCookie
     ELSE /\ result.kind = "authRes"
          /\ result.setCookie = authRes

C3_Witness ==
  /\ gpc = "done"
  /\ session = "user"
  /\ authRes = Header("appSession=v1; Expires=Wed, 21 Oct")
  /\ mwRes.truthy
  /\ mwRes.setCookie = Header("hl=en, t=1")
  /\ result.kind = "next"

\* C4: for a pathname starting with the login route, the callback route,
\* '/_next' or '/favicon.ico' the gate returns nothing, resolves no session
\* and invokes no handler; for every other pathname the session is resolved
\* (once) before any other outcome.
C4_ExemptExactly ==
  /\ (gpc # "idle" /\ ExemptPath) =>
        /\ gpc = "done"
        /\ result = Undefined
        /\ getCalls = 0
        /\ mwCalls = 0
        /\ session = "unresolved"
  /\ (gpc # "idle" /\ ~ExemptPath) =>
        /\ getCalls = 1
        /\ result # Undefined
        /\ (result # Pending \/ mwCalls > 0) => session # "unresolved"

C4_Witness ==
  /\ gpc = "done"
  /\ routes.callback = "/api/auth/callback"
  /\ req.pathname = "/api/auth/callback"
  /\ result = Undefined

\* the four outcomes of a request
Skipped == result = Undefined
Denied == result.kind = "json" /\ result.status = 401
Redirected == result.kind = "redirect"
PassedThrough == result.kind \in {"next", "authRes"}

\* C16: every request ends in exactly one of the four outcomes (skipped as
\* exempt, 401, redirect to login, pass-through); the session is resolved at
\* most once and the downstream handler is invoked at most once, and only
\* when the resolved session has a user; a resolved session without a user is
\* answered as no session is.
C16_OutcomeExclusive ==
  /\ getCalls <= 1
  /\ mwCalls <= 1
  /\ mwCalls = 1 => (session = "user" /\ getCalls = 1 /\ mw = "present")
  /\ gpc = "done" =>
       /\ Cardinality({o \in {"skipped", "denied", "redirected", "passed"} :
                         CASE o = "skipped" -> Skipped
                           [] o = "denied" -> Denied
                           [] o = "redirected" -> Redirected
                           [] o = "passed" -> PassedThrough}) = 1
       /\ Skipped <=> ExemptPath
       /\ Skipped => (getCalls = 0 /\ mwCalls = 0)
       /\ PassedThrough <=> (~ExemptPath /\ session = "user")
       /\ PassedThrough => (mwCalls = IF mw = "present" THEN 1 ELSE 0)
       /\ (~ExemptPath /\ session \in {"null", "nouser"}) =>
            /\ mwCalls = 0
            /\ Denied <=> StartsWith(req.pathname, "/api")
            /\ Redirected <=> ~StartsWith(req.pathname, "/api")

C16_Witness ==
  /\ gpc = "done"
  /\ mw = "present"
  /\ session = "nouser"
  /\ req.pathname = "/private"
  /\ Redirected
  /\ getCalls = 1
  /\ mwCalls = 0

-----------------------------------------------------------------------------
(* Claims about the auth routes                                            *)

\* C5: a failed auth-route request is finalized exactly once, whatever the
\* error handler: the default one, a custom one that ends the response, or a
\* custom one that does not (the default terminator then ends it).
C5_FinalizedExactlyOnce ==
  /\ ares.endCalls <= 1
  /\ (apc = "done" /\ thrown # NoError) => ares.endCalls = 1
  /\ (apc = "handled" /\ onError \in {"noop", "status"}) => ares.endCalls = 0

C5_Witness ==
  /\ apc = "done"
  /\ onError = "noop"
  /\ thrown.status = 400
  /\ ares = [statusCode |-> 500, endCalls |-> 1]

\* C6: a callback request carrying an `error` parameter fails with a typed
\* error of status 400 whose cause is exactly that error and
\* error_description; the error handler receives that same error; no token
\* exchange is attempted and no session is created.
C6_ProviderErrorSurfaced ==
  (apc # "idle" /\ areq.route = "callback" /\ areq.error # "") =>
     /\ thrown.status = 400
     /\ thrown.cause = [error |-> areq.error, error_description |-> areq.error_description]
     /\ tokenExchanges = 0
     /\ ~sessionCreated
     /\ apc # "exchanging"
     /\ (apc \in {"handled", "done"}) => received = thrown

C6_Witness ==
  /\ apc = "done"
  /\ areq.route = "callback"
  /\ areq.error = "foo"
  /\ areq.error_description = "bar"
  /\ areq.state # areq.cookieState
  /\ onError = "ends"
  /\ received.status = 400
  /\ received.cause = [error |-> "foo", error_description |-> "bar"]

-----------------------------------------------------------------------------
(* Claims about the Config                                                 *)

\* the configuration validated: the parameters over the environment
Raw == MergeEnv(params, env)

IsInteger(v) == v.t = "number" /\ ~v.frac
IsFalse(v) == v = Bool(FALSE)
\* a value Joi.number().integer() accepts
IntegerLike(v) == IsInteger(v) \/ (v.t = "string" /\ v.s \in NumericStrings)

\* response_type as it is after defaulting
RawResponseType == Or(Raw.authorizationParams.response_type, Str("id_token"))
RawAlg == Or(Raw.idTokenSigningAlg, Str("RS256"))
RawRolling == Or(Raw.session.rolling, Bool(TRUE))

\* the raw config gives a response_mode that breaks the response_mode rule
RawBreaksResponseMode ==
  LET rm == Raw.authorizationParams.response_mode IN
  /\ rm # Undef
  /\ \/ RawResponseType = Str("code") /\ rm # Str("query")
     \/ RawResponseType \in {Str("id_token"), Str("code id_token")} /\ rm # Str("form_post")

\* C7 (as stated): every returned Config has response_mode 'form_post' when
\* response_type is not 'code' and 'query' when it is 'code'; a raw config
\* violating this is rejected.
C7_Original ==
  /\ cpc = "returned" =>
       IF config.authorizationParams.response_type = Str("code")
       THEN config.authorizationParams.response_mode = Str("query")
       ELSE config.authorizationParams.response_mode = Str("form_post")
  /\ (cpc # "start" /\ RawBreaksResponseMode) => cpc = "thrown"

\* C7 (amended): every returned Config has response_mode 'form_post' when
\* response_type is not 'code'; when response_type is 'code' response_mode is
\* 'query' if the raw config gave one and is absent if it gave none; a raw
\* config giving any other response_mode is rejected.
C7_ResponseMode ==
  /\ cpc = "returned" =>
       IF config.authorizationParams.response_type = Str("code")
       THEN /\ config.authorizationParams.response_mode \in {Str("query"), Undef}
            /\ config.authorizationParams.response_mode = params.authorizationParams.response_mode
       ELSE config.authorizationParams.response_mode = Str("form_post")
  /\ (cpc # "start" /\ RawBreaksResponseMode) => cpc = "thrown"

C7_Witness ==
  /\ cpc = "returned"
  /\ params.authorizationParams.response_type = Str("code")
  /\ params.authorizationParams.response_mode = Undef
  /\ config.authorizationParams.response_mode = Undef

\* the HMAC-based signing algorithms
HmacAlgs == {"HS256", "HS384", "HS512"}

\* C8: a raw config without clientSecret is rejected when response_type
\* (given or defaulted) includes 'code' or idTokenSigningAlg is HMAC-based; so
\* a returned Config with such a response_type or algorithm has a clientSecret.
C8_ClientSecretRequired ==
  /\ ( /\ cpc # "start"
       /\ Raw.clientSecret = Undef
       /\ \/ RawResponseType \in {Str("code"), Str("code id_token")}
          \/ (RawAlg.t = "string" /\ RawAlg.s \in HmacAlgs) ) => cpc = "thrown"
  /\ ( /\ cpc = "returned"
       /\ \/ config.authorizationParams.response_type \in {Str("code"), Str("code id_token")}
          \/ config.idTokenSigningAlg.s \in HmacAlgs )
       => (config.clientSecret.t = "string" /\ config.clientSecret.s # "")

C8_Witness ==
  /\ cpc = "thrown"
  /\ Raw.clientSecret = Undef
  /\ params.authorizationParams.response_type = Str("code id_token")
  /\ params.idTokenSigningAlg = Undef
  /\ cfgError = [field |-> "clientSecret", type |-> "any.required"]

\* C9: in a returned Config, rolling = true gives an integer rollingDuration;
\* rolling = false gives rollingDuration = false and an integer
\* absoluteDuration; absoluteDuration is disabled only with rolling = true,
\* so one of the two durations is an integer.
C9_SessionDurations ==
  cpc = "returned" =>
    /\ config.session.rolling \in {Bool(TRUE), Bool(FALSE)}
    /\ config.session.rolling = Bool(TRUE) => IsInteger(config.session.rollingDuration)
    /\ config.session.rolling = Bool(FALSE) =>
         /\ IsFalse(config.session.rollingDuration)
         /\ IsInteger(config.session.absoluteDuration)
    /\ IsInteger(config.session.absoluteDuration) \/ IsFalse(config.session.absoluteDuration)
    /\ IsFalse(config.session.absoluteDuration) => config.session.rolling = Bool(TRUE)
    /\ IsInteger(config.session.rollingDuration) \/ IsInteger(config.session.absoluteDuration)

C9_Witness ==
  /\ cpc = "returned"
  /\ params.session.rolling = Bool(FALSE)
  /\ params.session.rollingDuration = Undef
  /\ config.session.rollingDuration = Bool(FALSE)
  /\ config.session.absoluteDuration = Num(7200)

\* every field and cross-field rule of the schema, on a Config
SatisfiesRules(c) ==
  /\ c.secret.t = "string" /\ Len(c.secret.s) >= 8
  /\ c.clientID.t = "string" /\ c.clientID.s # ""
  /\ c.session.rolling.t = "boolean"
  /\ IF c.session.rolling.b
     THEN /\ IsInteger(c.session.rollingDuration)
          /\ IsInteger(c.session.absoluteDuration) \/ IsFalse(c.session.absoluteDuration)
     ELSE /\ IsFalse(c.session.rollingDuration)
          /\ IsInteger(c.session.absoluteDuration)
  /\ c.authorizationParams.response_type \in
       {Str("id_token"), Str("code id_token"), Str("code")}
  /\ c.authorizationParams.scope.t = "string"
  /\ MatchesOpenid(c.authorizationParams.scope.s)
  /\ IF c.authorizationParams.response_type = Str("code")
     THEN c.authorizationParams.response_mode \in {Undef, Str("query")}
     ELSE c.authorizationParams.response_mode = Str("form_post")
  /\ c.idTokenSigningAlg.t = "string"
  /\ c.idTokenSigningAlg.s \notin {"", "none", "None", "NONE"}
  /\ c.clientSecret = Undef \/ (c.clientSecret.t = "string" /\ c.clientSecret.s # "")
  /\ ( \/ Includes(c.authorizationParams.response_type.s, "code")
       \/ StartsWith(c.idTokenSigningAlg.s, "HS") ) => c.clientSecret # Undef

\* the fields of the raw config that break a rule, cross-field rules taken on
\* the defaulted values
Offending ==
  LET s == Raw.session
      a == Raw.authorizationParams
  IN {f \in {"secret", "clientID", "session.rolling", "session.rollingDuration",
             "session.absoluteDuration", "authorizationParams.response_type",
             "authorizationParams.scope", "authorizationParams.response_mode",
             "idTokenSigningAlg", "clientSecret"} :
       CASE f = "secret" -> ~(Raw.secret.t = "string" /\ Len(Raw.secret.s) >= 8)
         [] f = "clientID" -> ~(Raw.clientID.t = "string" /\ Raw.clientID.s # "")
         [] f = "session.rolling" ->
              RawRolling.t # "boolean" /\ RawRolling \notin {Str("true"), Str("false")}
         [] f = "session.rollingDuration" ->
              /\ s.rollingDuration # Undef
              /\ IF RawRolling \in {Bool(TRUE), Str("true")}
                 THEN ~IntegerLike(s.rollingDuration)
                 ELSE s.rollingDuration \notin {Bool(FALSE), Str("false")}
         [] f = "session.absoluteDuration" ->
              /\ s.absoluteDuration # Undef
              /\ ~IntegerLike(s.absoluteDuration)
              /\ \/ RawRolling \in {Bool(FALSE), Str("false")}
                 \/ s.absoluteDuration \notin {Bool(FALSE), Str("false")}
         [] f = "authorizationParams.response_type" ->
              RawResponseType \notin {Str("id_token"), Str("code id_token"), Str("code")}
         [] f = "authorizationParams.scope" ->
              a.scope # Undef /\ ~(a.scope.t = "string" /\ MatchesOpenid(a.scope.s))
         [] f = "authorizationParams.response_mode" ->
              /\ a.response_mode # Undef
              /\ IF RawResponseType = Str("code")
                 THEN a.response_mode # Str("query")
                 ELSE a.response_mode # Str("form_post")
         [] f = "idTokenSigningAlg" ->
              ~(RawAlg.t = "string" /\ RawAlg.s \notin {"", "none", "None", "NONE"})
         [] f = "clientSecret" ->
              IF Raw.clientSecret = Undef
              THEN \/ (RawResponseType.t = "string" /\ Includes(RawResponseType.s, "code"))
                   \/ (RawAlg.t = "string" /\ StartsWith(RawAlg.s, "HS"))
              ELSE ~(Raw.clientSecret.t = "string" /\ Raw.clientSecret.s # "")}

\* C10: get() either returns a Config satisfying every field and cross-field
\* rule (cross-field rules on the defaulted values) or throws an error that
\* names an offending field; it returns no Config that breaks a rule.
C10_ReturnsValidOrThrows ==
  /\ cpc = "returned" => (SatisfiesRules(config) /\ Offending = {} /\ cfgError = NoDetail)
  /\ cpc = "thrown" => (cfgError.field \in Offending /\ config = NoParams)
  /\ (cpc # "start" /\ Offending # {}) => cpc = "thrown"

C10_Witness ==
  /\ cpc = "thrown"
  /\ params.session.rolling = Undef
  /\ params.session.rollingDuration = Bool(FALSE)
  /\ params.secret # Undef
  /\ cfgError.field = "session.rollingDuration"

\* a supplied value as validation keeps it: a numeric string as its number
Kept(v) == IF v.t = "string" /\ v.s \in NumericStrings THEN Num(NumberOf(v.s)) ELSE v

\* the optional fields that have a default: what the caller gave, what the
\* Config holds, and the default for a raw config with only the required fields
DefaultedFields ==
  <<[raw |-> params.session.rolling, got |-> config.session.rolling, def |-> Bool(TRUE)],
    [raw |-> params.session.rollingDuration, got |-> config.session.rollingDuration,
     def |-> Num(86400)],
    [raw |-> params.session.absoluteDuration, got |-> config.session.absoluteDuration,
     def |-> Num(604800)],
    [raw |-> params.session.cookie.sameSite, got |-> config.session.cookie.sameSite,
     def |-> Str("Lax")],
    [raw |-> params.session.cookie.httpOnly, got |-> config.session.cookie.httpOnly,
     def |-> Bool(TRUE)],
    [raw |-> params.routes.login, got |-> config.routes.login, def |-> Str("/login")],
    [raw |-> params.routes.logout, got |-> config.routes.logout, def |-> Str("/logout")],
    [raw |-> params.routes.callback, got |-> config.routes.callback,
     def |-> Str("/callback")],
    [raw |-> params.idTokenSigningAlg, got |-> config.idTokenSigningAlg,
     def |-> Str("RS256")],
    [raw |-> params.clockTolerance, got |-> config.clockTolerance, def |-> Num(60)],
    [raw |-> params.identityClaimFilter, got |-> config.identityClaimFilter,
     def |-> Arr(<<"aud", "iss", "iat", "exp", "nbf", "nonce", "azp", "auth_time",
                   "s_hash", "at_hash", "c_hash">>)]>>

\* C11: a raw config with only the required fields is accepted and the
\* returned Config holds rolling = true, rollingDuration = 86400,
\* absoluteDuration = 604800, cookie.sameSite = 'Lax', cookie.httpOnly = true,
\* routes /login, /logout, /callback, idTokenSigningAlg = 'RS256',
\* clockTolerance = 60 and the registered-claim list as identityClaimFilter;
\* in every returned Config a field the caller supplied holds the supplied
\* value, not its default.
C11_Defaults ==
  /\ (cpc # "start" /\ params = RequiredOnly) =>
       /\ cpc = "returned"
       /\ \A i \in 1..Len(DefaultedFields) : DefaultedFields[i].got = DefaultedFields[i].def
  /\ cpc = "returned" =>
       \A i \in 1..Len(DefaultedFields) :
         DefaultedFields[i].raw # Undef =>
           DefaultedFields[i].got = Kept(DefaultedFields[i].raw)

C11_Witness ==
  /\ cpc = "returned"
  /\ params = RequiredOnly
  /\ config.session.cookie.sameSite = Str("Lax")
  /\ config.identityClaimFilter.items[1] = "aud"
  /\ config.clockTolerance = Num(60)

\* the words of s: its maximal runs of word characters, cur being the run
\* in progress
RECURSIVE WordsOf(_, _)
WordsOf(s, cur) ==
  IF s = "" THEN (IF cur = "" THEN {} ELSE {cur})
  ELSE LET c == SubSeq(s, 1, 1)
           rest == SubSeq(s, 2, Len(s))
       IN IF c \in WordChars THEN WordsOf(rest, cur \o c)
          ELSE (IF cur = "" THEN {} ELSE {cur}) \cup WordsOf(rest, "")

\* v is a string with 'openid' as a whole word
HasOpenidWord(v) == v.t = "string" /\ "openid" \in WordsOf(v.s, "")

ResponseTypes == {Str("id_token"), Str("code id_token"), Str("code")}

\* C14: in every returned Config response_type is one of 'id_token',
\* 'code id_token', 'code' and scope contains 'openid' as a whole word; a raw
\* config that gives a scope without the word 'openid' or a response_type
\* other than these three is rejected.
C14_ResponseTypeAndScope ==
  /\ cpc = "returned" =>
       /\ config.authorizationParams.response_type \in ResponseTypes
       /\ HasOpenidWord(config.authorizationParams.scope)
  /\ ( /\ cpc # "start"
       /\ \/ (Raw.authorizationParams.scope # Undef
               /\ ~HasOpenidWord(Raw.authorizationParams.scope))
          \/ (Raw.authorizationParams.response_type # Undef
               /\ Raw.authorizationParams.response_type \notin ResponseTypes) )
       => cpc = "thrown"

C14_Witness ==
  /\ cpc = "thrown"
  /\ params.authorizationParams.scope = Str("openidx email")
  /\ params.authorizationParams.response_type = Str("id_token")
  /\ cfgError = [field |-> "authorizationParams.scope", type |-> "string.pattern.name"]

-----------------------------------------------------------------------------
(* Claims about the NodeResponse                                           *)

\* the name of a Set-Cookie entry: what precedes its first '='
CookieNameOf(cookie) == SubSeq(cookie, 1, IndexOf(cookie, "=", 1) - 1)

\* the value of a Set-Cookie entry: between its first '=' and its attributes
CookieValueOf(cookie) ==
  LET eq == IndexOf(cookie, "=", 1)
      semi == IndexOf(cookie, ";", 1)
  IN PercentDecode(SubSeq(cookie, eq + 1, IF semi = 0 THEN Len(cookie) ELSE semi - 1))

\* the setCookie calls that returned
SetCookieCalls == SelectSeq(calls, LAMBDA c : c.op = "setCookie" /\ ~c.threw)

\* the names set by a setCookie call that returned
NamesSet == {SetCookieCalls[i].name : i \in 1..Len(SetCookieCalls)}

\* the last setCookie call that returned for the name n
LastSetCookie(n) ==
  SetCookieCalls[CHOOSE i \in 1..Len(SetCookieCalls) :
                   /\ SetCookieCalls[i].name = n
                   /\ \A j \in (i + 1)..Len(SetCookieCalls) : SetCookieCalls[j].name # n]

\* C12: after any sequence of setCookie calls the Set-Cookie header holds at
\* most one entry per cookie name, the entry of a name that was set carries
\* the value of the last setCookie call for that name, and the entries of
\* every other name (also one sharing a prefix, 'appSession' and
\* 'appSession.0') are the ones the response had, unchanged and in order.
C12_SetCookieReplaces ==
  LET list == nres.setCookie.list IN
  /\ \A i, j \in 1..Len(list) : CookieNameOf(list[i]) = CookieNameOf(list[j]) => i = j
  /\ \A n \in NamesSet :
       \E i \in 1..Len(list) :
         /\ CookieNameOf(list[i]) = n
         /\ CookieValueOf(list[i]) = LastSetCookie(n).value
  /\ SelectSeq(list, LAMBDA c : CookieNameOf(c) \notin NamesSet)
       = SelectSeq(nres0.setCookie.list, LAMBDA c : CookieNameOf(c) \notin NamesSet)
  /\ NamesSet = {} => nres.setCookie = nres0.setCookie

C12_Witness ==
  /\ Len(SetCookieCalls) = 2
  /\ SetCookieCalls[1].name = "appSession" /\ SetCookieCalls[1].value = "v1"
  /\ SetCookieCalls[2].name = "appSession" /\ SetCookieCalls[2].value = "v 2"
  /\ nres0.setCookie.list = <<"appSession=old", "appSession.0=old; Path=/">>
  /\ nres.setCookie.list = <<"appSession.0=old; Path=/", "appSession=v%202">>

\* the step is a redirect call
IsRedirectStep == Len(calls') = Len(calls) + 1 /\ calls'[Len(calls')].op = "redirect"

\* a redirect call: on an ended response nothing changes; otherwise the status
\* given (302 when none is given) and a Location header are written and the
\* response is ended
RedirectStep ==
  IsRedirectStep =>
    LET call == calls'[Len(calls')] IN
    IF nres.writableEnded
    THEN nres' = nres
    ELSE /\ nres'.statusCode = (IF call.status = 0 THEN 302 ELSE call.status)
         /\ nres'.location.has
         /\ nres'.writableEnded
         /\ nres'.setCookie = nres.setCookie

\* the positions of the redirect calls
RedirectCalls == {i \in 1..Len(calls) : calls[i].op = "redirect"}

\* the call that ended the response: the first redirect or end call
FirstEnding == CHOOSE i \in 1..Len(calls) :
                 /\ calls[i].op \in {"redirect", "end"}
                 /\ \A j \in 1..(i - 1) : calls[j].op \notin {"redirect", "end"}

\* of the redirect calls, only one that found the response open shows in the
\* response: the status is the first redirect's, or 200 when the response was
\* ended before any redirect
FirstRedirectWins ==
  RedirectCalls # {} =>
    /\ nres.writableEnded
    /\ IF calls[FirstEnding].op = "redirect"
       THEN nres.statusCode = (IF calls[FirstEnding].status = 0 THEN 302
                               ELSE calls[FirstEnding].status)
       ELSE nres.statusCode = nres0.statusCode /\ nres.location = nres0.location
                                               /\ nres.body = nres0.body

\* C13: redirect on an ended response changes neither status, headers nor
\* body; redirect on a response that is not ended writes the status (302 by
\* default) and a Location header and ends the response; so of a sequence of
\* redirect calls only the first takes effect.
C13_RedirectOnce == [][RedirectStep]_vars /\ []FirstRedirectWins

C13_Witness ==
  /\ Len(calls) = 2
  /\ calls[1].op = "redirect" /\ calls[1].status = 0 /\ calls[1].location = "/"
  /\ calls[2].op = "redirect" /\ calls[2].status = 301 /\ calls[2].location = "/?<&>"
  /\ nres.statusCode = 302
  /\ nres.location = Header("/")
  /\ nres.body = "/"
  /\ nres.writableEnded

\* C17: when redirect(location) finds the response not ended, the Location
\* header sent is the Location value the response already had if it had one,
\* and the location argument only otherwise, while the body is the
\* HTML-escaped location argument; header target and body target can differ.
C17_LocationKept ==
  (RedirectCalls # {} /\ calls[FirstEnding].op = "redirect") =>
    LET call == calls[FirstEnding] IN
    /\ nres0.location.has => nres.location = nres0.location
    /\ ~nres0.location.has => nres.location = Header(call.location)
    /\ nres.body = htmlSafe(call.location)

C17_Witness ==
  /\ Len(calls) = 1
  /\ calls[1].op = "redirect" /\ calls[1].location = "/?<&>"
  /\ nres0.location = Header("/prior")
  /\ nres.location = Header("/prior")
  /\ nres.body = "/?&lt;&amp;&gt;"
  /\ nres.writableEnded

====
